---- MODULE Spec2Model ----
(***************************************************************************)
(* State-machine model of the quiz application (App component):           *)
(* the catalog load, the answer ledger (userAnswers) and its persistence  *)
(* in localStorage, the view filter, the navigation cursor and the        *)
(* summary.  Array indices are 0-based as in the source; At(s, i) reads   *)
(* the element the source writes s[i].                                    *)
(***************************************************************************)
EXTENDS Integers, Sequences, FiniteSets, TLC

VARIABLES questions, userAnswers, currentIndex, viewMode, loading, error,
          statusMessage, searchQuery, storage, backendOk, lastAction,
          pending, previous

vars == <<questions, userAnswers, currentIndex, viewMode, loading, error,
          statusMessage, searchQuery, storage, backendOk, lastAction,
          pending, previous>>

(* ------------------------------ bounds -------------------------------- *)

\* largest catalog the server returns
MaxQ == 2
\* longest ledger found in localStorage when the session starts
MaxP == 2

(* --------------------------- JavaScript values ------------------------ *)

Null == "null"
Undefined == "undefined"
True == "true"
False == "false"

Bool(b) == IF b THEN True ELSE False

\* s[i] of the source (0-based)
At(s, i) == s[i + 1]

\* s[i] exists (is not undefined)
Has(s, i) == i >= 0 /\ i < Len(s)

\* an array hole / a null element: item?.choice and item?.correct are undefined
Hole == [choice |-> Undefined, correct |-> Undefined]

\* x ?? null
OrNull(x) == IF x = Undefined THEN Null ELSE x

\* the array after  next = [...prev]; next[i] = v  (a write past the end
\* extends the array and leaves holes)
RECURSIVE Holes(_)
Holes(n) == IF n <= 0 THEN <<>> ELSE <<Hole>> \o Holes(n - 1)

SetAt(prev, i, v) ==
    IF i < Len(prev)
    THEN [prev EXCEPT ![i + 1] = v]
    ELSE prev \o Holes(i - Len(prev)) \o <<v>>

\* prev[i]?.correct
CorrectAt(prev, i) == IF Has(prev, i) THEN At(prev, i).correct ELSE Undefined
\* prev[i]?.choice
ChoiceAt(prev, i) == IF Has(prev, i) THEN At(prev, i).choice ELSE Undefined

(* ------------------------------ strings ------------------------------- *)

Char(s, i) == SubSeq(s, i, i)

LowerChar(c) ==
    CASE c = "A" -> "a"
      [] c = "B" -> "b"
      [] c = "C" -> "c"
      [] c = "D" -> "d"
      [] OTHER -> c

RECURSIVE toLowerCase(_)
toLowerCase(s) ==
    IF Len(s) = 0 THEN "" ELSE LowerChar(Char(s, 1)) \o toLowerCase(SubSeq(s, 2, Len(s)))

RECURSIVE trimStart(_)
trimStart(s) ==
    IF Len(s) > 0 /\ Char(s, 1) = " " THEN trimStart(SubSeq(s, 2, Len(s))) ELSE s

RECURSIVE trimEnd(_)
trimEnd(s) ==
    IF Len(s) > 0 /\ Char(s, Len(s)) = " " THEN trimEnd(SubSeq(s, 1, Len(s) - 1)) ELSE s

trim(s) == trimEnd(trimStart(s))

\* s.includes(q)
includes(s, q) ==
    \E i \in 1..(Len(s) - Len(q) + 1) : SubSeq(s, i, i + Len(q) - 1) = q

StartsWith(s, p) == Len(s) >= Len(p) /\ SubSeq(s, 1, Len(p)) = p

Drop(s, n) == SubSeq(s, n + 1, Len(s))

\* parts.join(sep)
RECURSIVE join(_, _)
join(parts, sep) ==
    IF Len(parts) = 0 THEN ""
    ELSE IF Len(parts) = 1 THEN parts[1]
    ELSE parts[1] \o sep \o join(Tail(parts), sep)

(* ------------------------------ catalog ------------------------------- *)

\* the k-th question of the question bank (id k); scores are a number or null
QuestionText(k) ==
    CASE k % 3 = 1 -> "Ab"
      [] k % 3 = 2 -> "cd"
      [] OTHER -> "ef"

OptionTexts(k) ==
    CASE k % 3 = 1 -> <<"x", "y">>
      [] k % 3 = 2 -> <<"B", "z">>
      [] OTHER -> <<"x", "b">>

\* a score field: a number, or null (no number)
Number(n) == <<n>>
NullScore == <<>>

Score(k) ==
    CASE k % 3 = 1 -> Number(1)
      [] k % 3 = 2 -> Number(2)
      [] OTHER -> NullScore

Question(k) ==
    [id |-> k,
     question |-> QuestionText(k),
     score |-> Score(k),
     options |-> <<[label |-> "A", text |-> OptionTexts(k)[1]],
                   [label |-> "B", text |-> OptionTexts(k)[2]]>>,
     answer |-> IF k % 2 = 1
                THEN [label |-> "A", text |-> OptionTexts(k)[1]]
                ELSE [label |-> "B", text |-> OptionTexts(k)[2]]]

\* the catalog of m questions served under the data URL
Catalog(m) == [k \in 1..m |-> Question(k)]

Labels == {"A", "B"}

\* what the search box can hold
Queries == {"", " ", "b", "x y", "B "}

(* ------------------------------- JSON --------------------------------- *)

\* JSON.stringify of a string | null
JsonString(x) == IF x = Null \/ x = Undefined THEN "null" ELSE "\"" \o x \o "\""

\* JSON.stringify of a boolean | null
JsonBool(x) == IF x = True THEN "true" ELSE IF x = False THEN "false" ELSE "null"

\* JSON.stringify of one array element (a hole or null element gives null)
JsonEntry(a) ==
    IF a = Hole THEN "null"
    ELSE "{\"choice\":" \o JsonString(a.choice) \o ",\"correct\":" \o JsonBool(a.correct) \o "}"

\* JSON.stringify(answers)
JSONstringify(answers) ==
    "[" \o join([k \in 1..Len(answers) |-> JsonEntry(answers[k])], ",") \o "]"

\* the results of the JSON readers: the value read and the text left
Read(v, rest) == [ok |-> TRUE, value |-> v, rest |-> rest]
NoRead == [ok |-> FALSE, value |-> Null, rest |-> ""]

\* index of the first double quote of s, 0 if none
FirstQuote(s) ==
    IF \E j \in 1..Len(s) : Char(s, j) = "\""
    THEN CHOOSE j \in 1..Len(s) :
            Char(s, j) = "\"" /\ \A h \in 1..(j - 1) : Char(s, h) # "\""
    ELSE 0

\* a JSON string or null at the head of s
ParseString(s) ==
    IF StartsWith(s, "null") THEN Read(Null, Drop(s, 4))
    ELSE IF StartsWith(s, "\"") /\ FirstQuote(Drop(s, 1)) > 0
         THEN LET body == Drop(s, 1)
                  j == FirstQuote(body)
              IN  Read(SubSeq(body, 1, j - 1), Drop(body, j))
         ELSE NoRead

\* a JSON boolean or null at the head of s
ParseBool(s) ==
    IF StartsWith(s, "null") THEN Read(Null, Drop(s, 4))
    ELSE IF StartsWith(s, "true") THEN Read(True, Drop(s, 4))
    ELSE IF StartsWith(s, "false") THEN Read(False, Drop(s, 5))
    ELSE NoRead

\* one element of the stored array at the head of s
ParseEntry(s) ==
    IF StartsWith(s, "null") THEN Read(Hole, Drop(s, 4))
    ELSE IF ~StartsWith(s, "{\"choice\":") THEN NoRead
    ELSE LET c == ParseString(Drop(s, 10))
         IN  IF ~c.ok \/ ~StartsWith(c.rest, ",\"correct\":") THEN NoRead
             ELSE LET g == ParseBool(Drop(c.rest, 11))
                  IN  IF ~g.ok \/ ~StartsWith(g.rest, "}") THEN NoRead
                      ELSE Read([choice |-> c.value, correct |-> g.value],
                                Drop(g.rest, 1))

RECURSIVE ParseElements(_, _)
ParseElements(s, acc) ==
    LET e == ParseEntry(s)
    IN  IF ~e.ok THEN [ok |-> FALSE, value |-> <<>>]
        ELSE IF e.rest = "]" THEN [ok |-> TRUE, value |-> Append(acc, e.value)]
        ELSE IF StartsWith(e.rest, ",")
             THEN ParseElements(Drop(e.rest, 1), Append(acc, e.value))
             ELSE [ok |-> FALSE, value |-> <<>>]

\* JSON.parse(saved) as UserAnswer[]; ok is FALSE where the source throws
JSONparse(text) ==
    IF text = "[]" THEN [ok |-> TRUE, value |-> <<>>]
    ELSE IF StartsWith(text, "[") THEN ParseElements(Drop(text, 1), <<>>)
    ELSE [ok |-> FALSE, value |-> <<>>]

(* ----------------------------- persistence ---------------------------- *)

\* localStorage under STORAGE_KEY: no item, or the item's text
Absent == <<>>
Stored(text) == <<text>>

FreshAnswer == [choice |-> Null, correct |-> Null]

getInitialAnswers(size) == [k \in 1..size |-> FreshAnswer]

\* the item after saveAnswersToStorage(answers); a throwing setItem is caught
saveAnswersToStorage(answers, store, ok) ==
    IF ok THEN Stored(JSONstringify(answers)) ELSE store

\* mutant: a shorter saved ledger is returned as it is, without the padding
loadAnswersFromStorageNoPad(size, store, ok) ==
    IF ~ok \/ store = Absent \/ store = Stored("")
    THEN getInitialAnswers(size)
    ELSE LET parsed == JSONparse(store[1])
         IN  IF ~parsed.ok THEN getInitialAnswers(size)
             ELSE IF Len(parsed.value) <= size THEN parsed.value
             ELSE SubSeq(parsed.value, 1, size)

\* mutant: a longer saved ledger is returned as it is, without the slice
loadAnswersFromStorageNoTruncate(size, store, ok) ==
    IF ~ok \/ store = Absent \/ store = Stored("")
    THEN getInitialAnswers(size)
    ELSE LET parsed == JSONparse(store[1])
         IN  IF ~parsed.ok THEN getInitialAnswers(size)
             ELSE IF Len(parsed.value) < size
                  THEN parsed.value \o getInitialAnswers(size - Len(parsed.value))
                  ELSE parsed.value

\* mutant: the saved item is never read
loadAnswersFromStorageIgnoresSaved(size, store, ok) ==
    getInitialAnswers(size)

\* loadAnswersFromStorage(size) reading the item store
loadAnswersFromStorage(size, store, ok) ==
    IF ~ok \/ store = Absent \/ store = Stored("")
    THEN getInitialAnswers(size)
    ELSE LET parsed == JSONparse(store[1])
         IN  IF ~parsed.ok THEN getInitialAnswers(size)
             ELSE IF Len(parsed.value) = size THEN parsed.value
             ELSE IF Len(parsed.value) < size
                  THEN parsed.value \o getInitialAnswers(size - Len(parsed.value))
                  ELSE SubSeq(parsed.value, 1, size)

\* mutant: the effect has no dependencies and runs only for the empty ledger
autoSaveNever(answers, store, ok) ==
    store

\* the auto-save effect, run after every replacement of userAnswers
autoSave(answers, store, ok) ==
    IF Len(answers) > 0 THEN saveAnswersToStorage(answers, store, ok) ELSE store

(* --------------------------- derived values --------------------------- *)

\* the indices 0 .. n-1 in order
Indices(n) == [k \in 1..n |-> k - 1]

Member(seq, x) == \E k \in 1..Len(seq) : seq[k] = x

\* seq.indexOf(x)
indexOf(seq, x) ==
    IF Member(seq, x)
    THEN (CHOOSE k \in 1..Len(seq) : seq[k] = x /\ \A h \in 1..(k - 1) : seq[h] # x) - 1
    ELSE -1

\* questions[i]?.score ?? 0
ScoreOrZero(qs, i) ==
    IF Has(qs, i) /\ At(qs, i).score # NullScore THEN At(qs, i).score[1] ELSE 0

RECURSIVE SumOver(_, _, _)
SumOver(idx, qs, k) ==
    IF k > Len(idx) THEN 0 ELSE ScoreOrZero(qs, idx[k]) + SumOver(idx, qs, k + 1)

\* mutant: an entry counts as answered as soon as it has a choice
summaryAnsweredByChoice(answers, qs) ==
    LET all == Indices(Len(answers))
    IN  [answeredCount |->
             Len(SelectSeq(all, LAMBDA i : At(answers, i) # Hole
                                           /\ At(answers, i).choice # Null)),
         correctCount |->
             Len(SelectSeq(all, LAMBDA i : CorrectAt(answers, i) = True)),
         wrongCount |->
             Len(SelectSeq(all, LAMBDA i : CorrectAt(answers, i) = False)),
         totalScore |->
             SumOver(SelectSeq(all, LAMBDA i : CorrectAt(answers, i) = True), qs, 1),
         fullScore |-> SumOver(Indices(Len(qs)), qs, 1)]

summary(answers, qs) ==
    LET all == Indices(Len(answers))
    IN  [answeredCount |->
             Len(SelectSeq(all, LAMBDA i : At(answers, i) # Hole
                                           /\ At(answers, i).correct # Null)),
         correctCount |->
             Len(SelectSeq(all, LAMBDA i : CorrectAt(answers, i) = True)),
         wrongCount |->
             Len(SelectSeq(all, LAMBDA i : CorrectAt(answers, i) = False)),
         totalScore |->
             SumOver(SelectSeq(all, LAMBDA i : CorrectAt(answers, i) = True), qs, 1),
         fullScore |-> SumOver(Indices(Len(qs)), qs, 1)]

wrongQuestionIndices(answers) ==
    SelectSeq(Indices(Len(answers)), LAMBDA i : CorrectAt(answers, i) = False)

optionsText(q) ==
    join([k \in 1..Len(q.options) |-> toLowerCase(q.options[k].text)], " ")

searchResultIndices(query, qs) ==
    IF trim(query) = "" THEN Indices(Len(qs))
    ELSE SelectSeq(Indices(Len(qs)),
                   LAMBDA i : \/ includes(toLowerCase(At(qs, i).question),
                                          toLowerCase(query))
                              \/ includes(optionsText(At(qs, i)), toLowerCase(query)))

\* mutant: a search query replaces the wrong-mode base set
visibleIndicesSearchFirst(mode, answers, query, qs) ==
    IF trim(query) # "" THEN searchResultIndices(query, qs)
    ELSE IF mode = "wrong" THEN wrongQuestionIndices(answers)
    ELSE Indices(Len(qs))

visibleIndices(mode, answers, query, qs) ==
    LET base == IF mode = "wrong" THEN wrongQuestionIndices(answers)
                ELSE IF trim(query) # "" THEN searchResultIndices(query, qs)
                ELSE Indices(Len(qs))
    IN  IF trim(query) # ""
        THEN SelectSeq(base, LAMBDA idx : Member(searchResultIndices(query, qs), idx))
        ELSE base

\* the cursor after the wrong-mode effect has run on (mode, answers, cursor)
\* mutant: the effect never reassigns the cursor
cursorEffectNever(mode, answers, cursor) ==
    cursor

cursorEffect(mode, answers, cursor) ==
    IF mode # "wrong" THEN cursor
    ELSE IF Len(wrongQuestionIndices(answers)) = 0 THEN cursor
    ELSE IF ~Member(wrongQuestionIndices(answers), cursor)
         THEN wrongQuestionIndices(answers)[1]
         ELSE cursor

currentVisiblePosition ==
    indexOf(visibleIndices(viewMode, userAnswers, searchQuery, questions), currentIndex)

previousIndex ==
    IF currentVisiblePosition > 0
    THEN At(visibleIndices(viewMode, userAnswers, searchQuery, questions),
            currentVisiblePosition - 1)
    ELSE -1

\* mutant: the position is not compared with -1
nextIndexUnchecked ==
    IF currentVisiblePosition
         < Len(visibleIndices(viewMode, userAnswers, searchQuery, questions)) - 1
    THEN At(visibleIndices(viewMode, userAnswers, searchQuery, questions),
            currentVisiblePosition + 1)
    ELSE -1

nextIndex ==
    IF currentVisiblePosition # -1
       /\ currentVisiblePosition
            < Len(visibleIndices(viewMode, userAnswers, searchQuery, questions)) - 1
    THEN At(visibleIndices(viewMode, userAnswers, searchQuery, questions),
            currentVisiblePosition + 1)
    ELSE -1

isSubmitted ==
    Has(userAnswers, currentIndex)
    /\ At(userAnswers, currentIndex) # Hole
    /\ At(userAnswers, currentIndex).correct # Null

selectedChoice == OrNull(ChoiceAt(userAnswers, currentIndex))

\* mutant: handleSubmit grades without looking at the selection
nothingSelectedUnchecked == FALSE

\* !selectedChoice of handleSubmit
nothingSelected == selectedChoice = Null \/ selectedChoice = ""

StatusNoSelection == "select an option first"
LoadFailed == "load failed"

(* ------------------------- the ledger updaters ------------------------ *)

\* mutant: selecting clears the grade
selectAnswerClearsGrade(prev, i, choice) ==
    SetAt(prev, i, [choice |-> choice, correct |-> Null])

\* the updater of handleSelect
selectAnswer(prev, i, choice) ==
    SetAt(prev, i, [choice |-> choice, correct |-> OrNull(CorrectAt(prev, i))])

\* mutant: the choice is compared with the answer's text, not its label
submitAnswerByText(prev, i, choice, question) ==
    SetAt(prev, i, [choice |-> choice, correct |-> Bool(choice = question.answer.text)])

\* the updater of handleSubmit
submitAnswer(prev, i, choice, question) ==
    SetAt(prev, i, [choice |-> choice, correct |-> Bool(choice = question.answer.label)])

\* mutant: the redo clears the grade and keeps the choice
resetAnswerKeepsChoice(prev, i) ==
    SetAt(prev, i, [choice |-> OrNull(ChoiceAt(prev, i)), correct |-> Null])

\* the updater of handleResetQuestion
resetAnswer(prev, i) == SetAt(prev, i, FreshAnswer)

(* ------------------------------- state -------------------------------- *)

\* what one entry of a ledger saved by an earlier session can be: fresh,
\* selected, graded right, graded wrong
PersistedAnswers ==
    {FreshAnswer,
     [choice |-> "A", correct |-> Null],
     [choice |-> "A", correct |-> True],
     [choice |-> "B", correct |-> False]}

PersistedLedgers == UNION {[1..n -> PersistedAnswers] : n \in 1..MaxP}

InitialStorage == {Absent} \cup {Stored(JSONstringify(l)) : l \in PersistedLedgers}

\* the ledger and catalog size of the session that ended before this one,
\* kept until this session's load completes
NoSession == <<>>
Ended(ledger, size) == <<ledger, size>>

Init ==
    /\ questions = <<>>
    /\ userAnswers = <<>>
    /\ currentIndex = 0
    /\ viewMode = "all"
    /\ loading = TRUE
    /\ error = Null
    /\ statusMessage = Null
    /\ searchQuery = ""
    /\ storage \in InitialStorage
    /\ backendOk = TRUE
    /\ lastAction = "mount"
    /\ pending = TRUE
    /\ previous = NoSession

(* --------------------------- the catalog load -------------------------- *)

\* fetchQuestions: the response arrives with a catalog of m questions
fetchQuestions(m) ==
    /\ pending
    /\ questions' = Catalog(m)
    /\ userAnswers' = loadAnswersFromStorage(m, storage, backendOk)
    /\ storage' = autoSave(userAnswers', storage, backendOk)
    /\ currentIndex' = cursorEffect(viewMode, userAnswers', currentIndex)
    /\ error' = Null
    /\ loading' = FALSE
    /\ pending' = FALSE
    /\ previous' = NoSession
    /\ lastAction' = IF previous = NoSession THEN "load" ELSE "loadAgain"
    /\ UNCHANGED <<viewMode, statusMessage, searchQuery, backendOk>>

\* fetchQuestions: the response is not ok, or the fetch fails
fetchQuestionsFails ==
    /\ pending
    /\ error' = LoadFailed
    /\ loading' = FALSE
    /\ pending' = FALSE
    /\ previous' = NoSession
    /\ lastAction' = "loadFailed"
    /\ UNCHANGED <<questions, userAnswers, currentIndex, viewMode, statusMessage,
                   searchQuery, storage, backendOk>>

\* the effect's cleanup aborts the pending fetch while the component stays
\* mounted and the effect runs again: the catch returns on the AbortError, the
\* finally clears the loading flag, and the second run's fetch is in flight
abortFetch ==
    /\ pending
    /\ loading' = FALSE
    /\ error' = Null
    /\ lastAction' = "abort"
    /\ UNCHANGED <<questions, userAnswers, currentIndex, viewMode, statusMessage,
                   searchQuery, storage, backendOk, pending, previous>>

(* ------------------------------ handlers ------------------------------ *)

\* mutant: the wrong-mode effect does not run when the ledger changes
setUserAnswersNoCursorEffect(next, store) ==
    /\ userAnswers' = next
    /\ storage' = autoSave(next, store, backendOk)
    /\ currentIndex' = currentIndex

\* setUserAnswers(next) and the effects that follow the new ledger
setUserAnswers(next, store) ==
    /\ userAnswers' = next
    /\ storage' = autoSave(next, store, backendOk)
    /\ currentIndex' = cursorEffect(viewMode, next, currentIndex)

\* mutant: the wrong-mode effect does not run after the cursor is set
setCurrentIndexNoEffect(index) ==
    currentIndex' = index

\* setCurrentIndex(index) and the wrong-mode effect that follows it
setCurrentIndex(index) ==
    currentIndex' = cursorEffect(viewMode, userAnswers, index)

handleSelect(choice) ==
    /\ Has(questions, currentIndex)
    /\ \E k \in 1..Len(At(questions, currentIndex).options) :
           At(questions, currentIndex).options[k].label = choice
    /\ setUserAnswers(selectAnswer(userAnswers, currentIndex, choice), storage)
    /\ statusMessage' = Null
    /\ lastAction' = "select"
    /\ UNCHANGED <<questions, viewMode, loading, error, searchQuery, backendOk, pending, previous>>

handleSubmit ==
    /\ lastAction' = "submit"
    /\ IF ~Has(questions, currentIndex)
       THEN UNCHANGED <<questions, userAnswers, currentIndex, viewMode, loading, error,
                        statusMessage, searchQuery, storage, backendOk, pending, previous>>
       ELSE IF nothingSelected
       THEN /\ statusMessage' = StatusNoSelection
            /\ UNCHANGED <<questions, userAnswers, currentIndex, viewMode, loading,
                           error, searchQuery, storage, backendOk, pending, previous>>
       ELSE /\ setUserAnswers(submitAnswer(userAnswers, currentIndex, selectedChoice,
                                           At(questions, currentIndex)), storage)
            /\ UNCHANGED <<questions, viewMode, loading, error, statusMessage,
                           searchQuery, backendOk, pending, previous>>

handleResetQuestion ==
    /\ Has(questions, currentIndex)
    /\ setUserAnswers(resetAnswer(userAnswers, currentIndex), storage)
    /\ statusMessage' = Null
    /\ lastAction' = "reset"
    /\ UNCHANGED <<questions, viewMode, loading, error, searchQuery, backendOk, pending, previous>>

handlePrevious ==
    /\ lastAction' = "previous"
    /\ IF previousIndex = -1
       THEN UNCHANGED <<currentIndex, statusMessage>>
       ELSE setCurrentIndex(previousIndex) /\ statusMessage' = Null
    /\ UNCHANGED <<questions, userAnswers, viewMode, loading, error, searchQuery,
                   storage, backendOk, pending, previous>>

handleNext ==
    /\ lastAction' = "next"
    /\ IF nextIndex = -1
       THEN UNCHANGED <<currentIndex, statusMessage>>
       ELSE setCurrentIndex(nextIndex) /\ statusMessage' = Null
    /\ UNCHANGED <<questions, userAnswers, viewMode, loading, error, searchQuery,
                   storage, backendOk, pending, previous>>

handleJump(index) ==
    /\ Has(questions, index)
    /\ setCurrentIndex(index)
    /\ statusMessage' = Null
    /\ lastAction' = "jump"
    /\ UNCHANGED <<questions, userAnswers, viewMode, loading, error, searchQuery,
                   storage, backendOk, pending, previous>>

handleToggleView ==
    /\ viewMode' = IF viewMode = "all" THEN "wrong" ELSE "all"
    /\ currentIndex' = cursorEffect(viewMode', userAnswers, currentIndex)
    /\ lastAction' = "toggle"
    /\ UNCHANGED <<questions, userAnswers, loading, error, statusMessage, searchQuery,
                   storage, backendOk, pending, previous>>

\* the search input's onChange
setSearchQuery(q) ==
    /\ searchQuery' = q
    /\ lastAction' = "search"
    /\ UNCHANGED <<questions, userAnswers, currentIndex, viewMode, loading, error,
                   statusMessage, storage, backendOk, pending, previous>>

handleClearSearch ==
    /\ searchQuery' = ""
    /\ statusMessage' = Null
    /\ lastAction' = "clearSearch"
    /\ UNCHANGED <<questions, userAnswers, currentIndex, viewMode, loading, error,
                   storage, backendOk, pending, previous>>

\* confirmed: the answer to the confirm() dialog; a throwing removeItem
\* leaves the try block before setUserAnswers
handleClearRecords(confirmed) ==
    /\ lastAction' = IF confirmed THEN "clearAll" ELSE "clearCancelled"
    /\ IF confirmed /\ backendOk
       THEN /\ setUserAnswers(getInitialAnswers(Len(questions)), Absent)
            /\ statusMessage' = Null
       ELSE UNCHANGED <<userAnswers, storage, currentIndex, statusMessage>>
    /\ UNCHANGED <<questions, viewMode, loading, error, searchQuery, backendOk, pending, previous>>

Next ==
    \/ \E m \in 0..MaxQ : fetchQuestions(m)
    \/ fetchQuestionsFails
    \/ \E choice \in Labels : handleSelect(choice)
    \/ handleSubmit
    \/ handleResetQuestion
    \/ handlePrevious
    \/ handleNext
    \/ \E index \in 0..(MaxQ - 1) : handleJump(index)
    \/ handleToggleView
    \/ \E q \in Queries : setSearchQuery(q)
    \/ handleClearSearch
    \/ \E confirmed \in BOOLEAN : handleClearRecords(confirmed)

Spec == Init /\ [][Next]_vars

(* ---------------- the handlers as the rendered page offers them -------- *)

\* renderBody reaches the question card
questionCardShown ==
    /\ ~loading
    /\ error = Null
    /\ ~(viewMode = "wrong" /\ Len(wrongQuestionIndices(userAnswers)) = 0)
    /\ Len(visibleIndices(viewMode, userAnswers, searchQuery, questions)) # 0
    /\ Has(questions, currentIndex)

\* mutant: the option buttons stay enabled on a graded entry
ClickOptionAlways(choice) ==
    questionCardShown /\ handleSelect(choice)

\* an option button: disabled once the entry is graded
ClickOption(choice) ==
    questionCardShown /\ ~isSubmitted /\ handleSelect(choice)

\* the submit button: shown while ungraded, disabled with nothing selected
ClickSubmit ==
    questionCardShown /\ ~isSubmitted /\ ~nothingSelected /\ handleSubmit

\* the redo button: shown once the entry is graded
ClickReset ==
    questionCardShown /\ isSubmitted /\ handleResetQuestion

ClickPrevious ==
    questionCardShown /\ previousIndex # -1 /\ handlePrevious

ClickNext ==
    questionCardShown /\ nextIndex # -1 /\ handleNext

\* a navigator item: one per visible index
ClickNavigatorItem(index) ==
    /\ Member(visibleIndices(viewMode, userAnswers, searchQuery, questions), index)
    /\ handleJump(index)

\* mutant: the view button is never disabled
ClickToggleViewAlways ==
    handleToggleView

\* the view button: disabled in 'all' mode with no wrong answer
ClickToggleView ==
    /\ ~(viewMode = "all" /\ summary(userAnswers, questions).wrongCount = 0)
    /\ handleToggleView

\* the clear-search button: shown while the query is not empty
ClickClearSearch ==
    searchQuery # "" /\ handleClearSearch

NextUI ==
    \/ \E m \in 0..MaxQ : fetchQuestions(m)
    \/ fetchQuestionsFails
    \/ \E choice \in Labels : ClickOption(choice)
    \/ ClickSubmit
    \/ ClickReset
    \/ ClickPrevious
    \/ ClickNext
    \/ \E index \in 0..(MaxQ - 1) : ClickNavigatorItem(index)
    \/ ClickToggleView
    \/ \E q \in Queries : setSearchQuery(q)
    \/ ClickClearSearch
    \/ \E confirmed \in BOOLEAN : handleClearRecords(confirmed)

\* the program with effects that are cleaned up and run again after the mount
NextDev ==
    \/ Next
    \/ abortFetch

SpecDev == Init /\ [][NextDev]_vars

\* the page is closed and opened again: the component state starts over, the
\* item under STORAGE_KEY stays, and the new mount's fetch is in flight
reloadPage ==
    /\ questions' = <<>>
    /\ userAnswers' = <<>>
    /\ currentIndex' = 0
    /\ viewMode' = "all"
    /\ loading' = TRUE
    /\ error' = Null
    /\ statusMessage' = Null
    /\ searchQuery' = ""
    /\ pending' = TRUE
    /\ previous' = Ended(userAnswers, Len(questions))
    /\ lastAction' = "newSession"
    /\ UNCHANGED <<storage, backendOk>>

\* the program over several sessions
NextSession ==
    \/ Next
    \/ reloadPage

SpecSession == Init /\ [][NextSession]_vars

\* the page as rendered: disabled and absent controls are never used
SpecUI == Init /\ [][NextUI]_vars

\* a first session: nothing is stored under STORAGE_KEY
InitFresh ==
    /\ questions = <<>>
    /\ userAnswers = <<>>
    /\ currentIndex = 0
    /\ viewMode = "all"
    /\ loading = TRUE
    /\ error = Null
    /\ statusMessage = Null
    /\ searchQuery = ""
    /\ storage = Absent
    /\ backendOk = TRUE
    /\ lastAction = "mount"
    /\ pending = TRUE
    /\ previous = NoSession

\* the page as rendered, starting from a fresh ledger
SpecFresh == InitFresh /\ [][NextUI]_vars

\* a session whose localStorage may throw on every call
InitFail ==
    /\ questions = <<>>
    /\ userAnswers = <<>>
    /\ currentIndex = 0
    /\ viewMode = "all"
    /\ loading = TRUE
    /\ error = Null
    /\ statusMessage = Null
    /\ searchQuery = ""
    /\ storage \in {Absent, Stored(JSONstringify(getInitialAnswers(MaxP)))}
    /\ backendOk \in BOOLEAN
    /\ lastAction = "mount"
    /\ pending = TRUE
    /\ previous = NoSession

SpecFail == InitFail /\ [][Next]_vars

(* ------------------------------- claims ------------------------------- *)

\* result is persisted cut or padded to m entries
MigratedFrom(persisted, result, m) ==
    /\ Len(result) = m
    /\ \A k \in 1..m :
           result[k] = IF k <= Len(persisted) THEN persisted[k] ELSE FreshAnswer

\* C1: the load turns a saved ledger of length n (or no saved ledger) and a
\* catalog of m questions into a ledger of exactly m entries: the first
\* min(n, m) are the saved entries in order, the others are fresh; with
\* nothing saved all m are fresh.
C1_MigrationContract ==
    [][(loading /\ ~loading' /\ error' = Null) =>
          IF storage = Absent
          THEN MigratedFrom(<<>>, userAnswers', Len(questions'))
          ELSE \E l \in PersistedLedgers :
                  /\ storage = Stored(JSONstringify(l))
                  /\ MigratedFrom(l, userAnswers', Len(questions'))]_vars

\* a load that kept a saved graded entry and padded the ledger with a fresh one
C1_Witness ==
    /\ lastAction = "load"
    /\ Len(userAnswers) = 2
    /\ userAnswers[1] = [choice |-> "B", correct |-> False]
    /\ userAnswers[2] = FreshAnswer

\* C2: submit on a current entry whose choice is null leaves the ledger and
\* the stored item unchanged and yields the 'nothing selected' message.
C2_SubmitRequiresSelection ==
    [][(/\ lastAction' = "submit"
        /\ Has(questions, currentIndex)
        /\ Has(userAnswers, currentIndex)
        /\ At(userAnswers, currentIndex).choice = Null) =>
          (/\ userAnswers' = userAnswers
           /\ storage' = storage
           /\ statusMessage' = StatusNoSelection)]_vars

\* submit has just been refused on an entry with no choice
C2_Witness ==
    /\ lastAction = "submit"
    /\ statusMessage = StatusNoSelection
    /\ Has(userAnswers, currentIndex)
    /\ At(userAnswers, currentIndex).choice = Null

C4_SelectKeepsGrade ==
    [][\A x \in Labels :
          handleSelect(x) =>
             /\ Has(userAnswers, currentIndex)
             /\ userAnswers' =
                   [userAnswers EXCEPT ![currentIndex + 1] =
                       [choice |-> x,
                        correct |-> At(userAnswers, currentIndex).correct]]]_vars

\* a select has just changed the choice of a graded entry
C4_Witness ==
    /\ lastAction = "select"
    /\ Has(userAnswers, currentIndex)
    /\ At(userAnswers, currentIndex).correct = True
    /\ At(userAnswers, currentIndex).choice # At(questions, currentIndex).answer.label

\* C5: reset(i) yields ledger[i] = {choice: null, correct: null} from any
\* prior state of the entry and changes no other entry.
C5_ResetClearsEntry ==
    [][lastAction' = "reset" =>
          /\ Has(userAnswers, currentIndex)
          /\ userAnswers' = [userAnswers EXCEPT ![currentIndex + 1] = FreshAnswer]]_vars

\* a reset has just cleared one entry while another entry stays graded
C5_Witness ==
    /\ lastAction = "reset"
    /\ Len(userAnswers) = 2
    /\ \E i, j \in 0..1 :
          /\ At(userAnswers, i) = FreshAnswer
          /\ At(userAnswers, j).correct = True

\* C6: once the catalog has loaded, the ledger has as many entries as the
\* catalog in every reachable state.
C6_LedgerLength ==
    (~loading /\ error = Null) => Len(userAnswers) = Len(questions)

\* a loaded catalog of two questions after a mutation of the ledger
C6_Witness ==
    /\ ~loading
    /\ error = Null
    /\ Len(questions) = 2
    /\ lastAction \in {"select", "submit", "reset", "clearAll"}

\* C7: after a confirmed clearAll and the effects of its ledger
\* replacement, the ledger is catalogSize fresh records and localStorage
\* holds no item under the ledger key.
C7_ClearAllRemovesBlob ==
    lastAction = "clearAll" =>
        /\ userAnswers = getInitialAnswers(Len(questions))
        /\ storage = Absent

\* C8: select, submit, reset and clearAll produce their in-memory ledger
\* whether the localStorage call succeeds or throws.
C8_InMemoryDespiteFailure ==
    [][/\ \A x \in Labels :
             handleSelect(x) =>
                userAnswers' = [userAnswers EXCEPT ![currentIndex + 1] =
                                   [choice |-> x,
                                    correct |-> At(userAnswers, currentIndex).correct]]
       /\ (/\ lastAction' = "submit"
           /\ Has(questions, currentIndex)
           /\ Has(userAnswers, currentIndex)
           /\ At(userAnswers, currentIndex).choice # Null) =>
             userAnswers' =
                [userAnswers EXCEPT ![currentIndex + 1] =
                    [choice |-> At(userAnswers, currentIndex).choice,
                     correct |-> Bool(At(userAnswers, currentIndex).choice
                                        = At(questions, currentIndex).answer.label)]]
       /\ lastAction' = "reset" =>
             userAnswers' = [userAnswers EXCEPT ![currentIndex + 1] = FreshAnswer]
       /\ lastAction' = "clearAll" =>
             userAnswers' = getInitialAnswers(Len(questions))]_vars

AllScoresNonNegative(qs) ==
    \A k \in 1..Len(qs) : qs[k].score = NullScore \/ qs[k].score[1] >= 0

\* C9: for every reachable catalog and ledger, answeredCount equals
\* correctCount + wrongCount, and totalScore <= fullScore when no score is
\* negative (a null score counts as 0).
C9_SummaryConsistent ==
    LET s == summary(userAnswers, questions)
    IN  /\ s.answeredCount = s.correctCount + s.wrongCount
        /\ AllScoresNonNegative(questions) => s.totalScore <= s.fullScore

\* the summary of a ledger with one right and one wrong answer
C9_Witness ==
    LET s == summary(userAnswers, questions)
    IN  /\ s.answeredCount = 2
        /\ s.correctCount = 1
        /\ s.wrongCount = 1
        /\ s.totalScore > 0
        /\ s.totalScore < s.fullScore

\* C10: in wrong mode, for every query, every visible index has
\* correct = false and the indices are strictly ascending; with a blank
\* query they are exactly the indices whose correct = false.
C10_WrongModeSubset ==
    \A q \in Queries :
        LET v == visibleIndices("wrong", userAnswers, q, questions)
        IN  /\ \A k \in 1..Len(v) : CorrectAt(userAnswers, v[k]) = False
            /\ \A k \in 1..(Len(v) - 1) : v[k] < v[k + 1]
            /\ trim(q) = "" =>
                  {v[k] : k \in 1..Len(v)}
                     = {i \in 0..(Len(userAnswers) - 1) :
                           At(userAnswers, i).correct = False}

\* wrong mode with a query that keeps one of two wrong questions
C10_Witness ==
    /\ viewMode = "wrong"
    /\ searchQuery = "x y"
    /\ wrongQuestionIndices(userAnswers) = <<0, 1>>
    /\ visibleIndices(viewMode, userAnswers, searchQuery, questions) = <<0>>

\* the indices matched by the lowercase trimmed query
TrimmedSearchIndices(q, qs) ==
    SelectSeq(Indices(Len(qs)),
              LAMBDA i : \/ includes(toLowerCase(At(qs, i).question),
                                     toLowerCase(trim(q)))
                         \/ includes(optionsText(At(qs, i)), toLowerCase(trim(q))))

\* C11: for a query that does not trim to empty, searchResultIndices is
\* exactly the indices whose lowercase question text, or lowercase option
\* texts joined by single spaces, contain the lowercase trimmed query;
\* surrounding whitespace in the query never changes the result.
C11_SearchUsesTrimmedQuery ==
    \A q \in Queries :
        trim(q) # "" =>
            searchResultIndices(q, questions) = TrimmedSearchIndices(q, questions)

\* the visible indices of the current state
Visible == visibleIndices(viewMode, userAnswers, searchQuery, questions)

\* C12: previous and next change neither cursor, ledger, mode nor query when
\* the cursor is the first (previous) or last (next) visible index or is not
\* visible at all; otherwise they move the cursor to the visible index before
\* or after it and leave the ledger unchanged.
C12_NavigationTargets ==
    [][/\ lastAction' = "previous" =>
             IF \E k \in 2..Len(Visible) : Visible[k] = currentIndex
             THEN /\ \E k \in 2..Len(Visible) :
                        Visible[k] = currentIndex /\ currentIndex' = Visible[k - 1]
                  /\ userAnswers' = userAnswers
             ELSE UNCHANGED <<currentIndex, userAnswers, viewMode, searchQuery>>
       /\ lastAction' = "next" =>
             IF \E k \in 1..(Len(Visible) - 1) : Visible[k] = currentIndex
             THEN /\ \E k \in 1..(Len(Visible) - 1) :
                        Visible[k] = currentIndex /\ currentIndex' = Visible[k + 1]
                  /\ userAnswers' = userAnswers
             ELSE UNCHANGED <<currentIndex, userAnswers, viewMode, searchQuery>>]_vars

\* next has just done nothing (the status message was not cleared) with the
\* cursor outside a non-empty view
C12_Witness ==
    /\ lastAction = "next"
    /\ statusMessage = StatusNoSelection
    /\ Len(Visible) > 0
    /\ ~Member(Visible, currentIndex)

\* C13 as stated: a jump to any valid catalog index leaves the cursor equal to
\* that index once the wrong-mode effect has run, in both modes and whether or
\* not the index is visible.
C13_JumpUnconditional ==
    [][\A index \in 0..(MaxQ - 1) :
           handleJump(index) => currentIndex' = index]_vars

\* C13 amended: a jump to a valid catalog index leaves the cursor equal to that
\* index, except in wrong mode when the wrong indices are non-empty and do not
\* contain the index: there the cursor ends at the first wrong index.
C13_JumpThenCorrection ==
    [][\A index \in 0..(MaxQ - 1) :
           handleJump(index) =>
               currentIndex' =
                   IF /\ viewMode = "wrong"
                      /\ Len(wrongQuestionIndices(userAnswers)) > 0
                      /\ ~Member(wrongQuestionIndices(userAnswers), index)
                   THEN wrongQuestionIndices(userAnswers)[1]
                   ELSE index]_vars

\* a jump in all mode has put the cursor on a question outside the non-empty view
C13_Witness ==
    /\ lastAction = "jump"
    /\ viewMode = "all"
    /\ Len(Visible) > 0
    /\ ~Member(Visible, currentIndex)

\* C14: the view mode changes from all to wrong only in states where some
\* ledger entry has correct = false, and in every state in wrong mode the
\* switch back to all is permitted, also when no wrong entry remains.
C14_TogglePermitted ==
    /\ [][(viewMode = "all" /\ viewMode' = "wrong") =>
              \E i \in 1..Len(userAnswers) : userAnswers[i].correct = False]_vars
    /\ [](viewMode = "wrong" => ENABLED (ClickToggleView /\ viewMode' = "all"))

\* the view has been switched back to all after the last wrong entry was redone
C14_Witness ==
    /\ lastAction = "toggle"
    /\ viewMode = "all"
    /\ Len(questions) > 0
    /\ \A i \in 1..Len(userAnswers) : userAnswers[i].correct # False

\* C15: aborting the pending catalog load changes nothing: catalog, ledger,
\* loading flag and error keep the values they had before the abort, and no
\* error is shown.
C15_AbortChangesNothing ==
    [][abortFetch =>
          /\ UNCHANGED <<questions, userAnswers, loading, error>>
          /\ error' = Null]_vars

\* the catalog indices whose ledger entry is graded wrong
WrongSet(answers) ==
    {i \in 0..(Len(answers) - 1) : answers[i + 1].correct = False}

\* C16: in wrong mode, once the effects of a step have run, a cursor that is
\* not a wrong index has been moved to the smallest wrong index when there is
\* one and is left where it was when there is none, and a cursor that is a
\* wrong index has not been moved. Steps other than previous, next and jump
\* hand the effect the old cursor; after every step in wrong mode the cursor is
\* a wrong index whenever one exists.
C16_WrongModeCorrection ==
    [][viewMode' = "wrong" =>
          /\ WrongSet(userAnswers') # {} => currentIndex' \in WrongSet(userAnswers')
          /\ lastAction' \notin {"previous", "next", "jump"} =>
                currentIndex' =
                    IF currentIndex \in WrongSet(userAnswers')
                       \/ WrongSet(userAnswers') = {}
                    THEN currentIndex
                    ELSE CHOOSE i \in WrongSet(userAnswers') :
                             \A j \in WrongSet(userAnswers') : i <= j]_vars

\* in wrong mode the entry under the cursor was redone and the cursor went on
\* to the remaining wrong index
C16_Witness ==
    /\ lastAction = "reset"
    /\ viewMode = "wrong"
    /\ Len(userAnswers) = 2
    /\ userAnswers[1] = FreshAnswer
    /\ userAnswers[2].correct = False
    /\ currentIndex = 1

\* C17 as stated: whenever the visible indices are not empty, the cursor is one
\* of them.
C17_CursorVisible ==
    Len(Visible) > 0 => Member(Visible, currentIndex)

\* the visible indices of the current mode with the search filter disregarded
VisibleWithoutSearch == visibleIndices(viewMode, userAnswers, "", questions)

\* C17 amended: whenever the visible indices of the current mode, taken without
\* the search filter, are not empty, the cursor is one of them; so the cursor
\* is visible whenever the view is not empty and the query trims to empty.
C17_CursorInModeView ==
    /\ Len(VisibleWithoutSearch) > 0 => Member(VisibleWithoutSearch, currentIndex)
    /\ (trim(searchQuery) = "" /\ Len(Visible) > 0) => Member(Visible, currentIndex)

\* a blank query was typed in wrong mode and the cursor is on a visible question
C17_Witness ==
    /\ lastAction = "search"
    /\ searchQuery = " "
    /\ viewMode = "wrong"
    /\ Len(Visible) > 0
    /\ Member(Visible, currentIndex)

\* C18: with a working backend and a catalog that is not empty, after the
\* initial migration and after every select, submit and reset the stored blob
\* is the JSON text of the whole in-memory ledger.
C18_BlobIsLedger ==
    (/\ backendOk
     /\ Len(questions) > 0
     /\ lastAction \in {"load", "select", "submit", "reset"})
        => storage = Stored(JSONstringify(userAnswers))

\* an answer was graded and the blob holds the ledger with that grade
C18_Witness ==
    /\ lastAction = "submit"
    /\ Len(userAnswers) = 2
    /\ userAnswers[2].correct = True
    /\ storage = Stored(JSONstringify(userAnswers))

\* the grade of entry i before a step; an entry created by the step starts ungraded
GradeBefore(i) == IF i <= Len(userAnswers) THEN userAnswers[i].correct ELSE Null

\* C19: from a fresh ledger and through the controls the page offers, every
\* graded entry has a choice and its grade says whether that choice is the
\* label of the question's answer; an entry becomes graded only by a submit at
\* the cursor, every such submit grades it, a graded entry changes only by
\* becoming ungraded, and that happens only by a reset at the cursor or by
\* clearing all records.
C19_GradeReflectsSubmission ==
    /\ [](\A i \in 1..Len(userAnswers) :
              userAnswers[i].correct # Null =>
                  /\ userAnswers[i].choice # Null
                  /\ userAnswers[i].correct =
                         Bool(userAnswers[i].choice = questions[i].answer.label))
    /\ [][\A i \in 1..Len(userAnswers') :
              /\ (GradeBefore(i) = Null /\ userAnswers'[i].correct # Null)
                     => (lastAction' = "submit" /\ currentIndex = i - 1)
              /\ (lastAction' = "submit" /\ currentIndex = i - 1)
                     => userAnswers'[i].correct # Null
              /\ (GradeBefore(i) # Null /\ userAnswers'[i].correct # Null)
                     => userAnswers'[i] = userAnswers[i]
              /\ (GradeBefore(i) # Null /\ userAnswers'[i].correct = Null)
                     => \/ lastAction' = "reset" /\ currentIndex = i - 1
                        \/ lastAction' = "clearAll"
              /\ (lastAction' = "reset" /\ currentIndex = i - 1)
                     => userAnswers'[i].correct = Null]_vars

\* one entry is graded right and the other graded wrong
C19_Witness ==
    /\ storage # Absent
    /\ Len(userAnswers) = 2
    /\ userAnswers[1] = [choice |-> "A", correct |-> True]
    /\ userAnswers[2] = [choice |-> "A", correct |-> False]

\* C20: when a session with a catalog that is not empty has ended and the next
\* session loads a catalog of the same size, the ledger it obtains from the
\* stored blob equals the ledger the previous session ended with.
C20_SessionRoundTrip ==
    [][(/\ lastAction = "newSession"
        /\ lastAction' = "loadAgain"
        /\ backendOk
        /\ previous[2] > 0
        /\ Len(questions') = previous[2])
           => userAnswers' = previous[1]]_vars

\* a later session has loaded a ledger holding a grade given in an earlier one
C20_Witness ==
    /\ lastAction = "loadAgain"
    /\ Len(userAnswers) = 2
    /\ userAnswers[2] = [choice |-> "B", correct |-> True]

====
